---------------------------- MODULE Spec2Model ----------------------------
(***************************************************************************)
(* headcrab-dap: the header codec, the frame reader and the Listener /     *)
(* Adapter pair of the Debug Adapter Protocol transport.                   *)
(*                                                                         *)
(* Text is a sequence of one-character strings.  A `usize` is held as its  *)
(* canonical decimal numeral (a sequence of digits without leading zeros), *)
(* which keeps the full 64-bit range; NatOf / DigitsOf convert between a   *)
(* numeral and a number where the number is needed (a byte count).         *)
(***************************************************************************)
EXTENDS Integers, Sequences, FiniteSets, TLC

(***************************************************************************)
(* With(e, Op) is Op(e) with e evaluated once: `let x = e; ...`.           *)
(***************************************************************************)
With(x, Op(_)) == CHOOSE r \in {Op(v) : v \in {x}} : TRUE

(***************************************************************************)
(* Text helpers: what str::split, str::trim and BufRead::read_line do.     *)
(***************************************************************************)

\* the characters str::trim removes (Unicode White_Space, as far as the
\* alphabet of the model goes)
WhiteSpace == {" ", "\t", "\r", "\n"}

Digits == <<"0", "1", "2", "3", "4", "5", "6", "7", "8", "9">>

IsDigit(c) == \E d \in 1..10 : Digits[d] = c

DigitValue(c) == (CHOOSE d \in 1..10 : Digits[d] = c) - 1

\* index of the first occurrence of c in s, 0 when there is none
IndexOf(s, c) ==
    With(s, LAMBDA t :
        IF \E i \in 1..Len(t) : t[i] = c
        THEN CHOOSE i \in 1..Len(t) : t[i] = c /\ \A j \in 1..(i - 1) : t[j] # c
        ELSE 0)

RECURSIVE SplitOn(_, _)
\* str::split(c): the pieces between the separators, empty pieces included
SplitOn(s, c) ==
    With(s, LAMBDA t :
    With(IndexOf(t, c), LAMBDA i :
        IF i = 0 THEN <<t>>
        ELSE <<SubSeq(t, 1, i - 1)>> \o SplitOn(SubSeq(t, i + 1, Len(t)), c)))

\* str::trim_start
TrimStart(s) ==
    With(s, LAMBDA t :
        IF \A i \in 1..Len(t) : t[i] \in WhiteSpace THEN <<>>
        ELSE SubSeq(t, CHOOSE i \in 1..Len(t) :
                            /\ t[i] \notin WhiteSpace
                            /\ \A j \in 1..(i - 1) : t[j] \in WhiteSpace,
                    Len(t)))

\* str::trim_end
TrimEnd(s) ==
    With(s, LAMBDA t :
        IF \A i \in 1..Len(t) : t[i] \in WhiteSpace THEN <<>>
        ELSE SubSeq(t, 1, CHOOSE i \in 1..Len(t) :
                            /\ t[i] \notin WhiteSpace
                            /\ \A j \in (i + 1)..Len(t) : t[j] \in WhiteSpace))

\* str::trim
Trim(s) == TrimEnd(TrimStart(s))

\* BufRead::read_line on the bytes `buf` that are left: the line up to and
\* including the first "\n", or everything that is left when there is none
\* (end of stream).  An empty line (zero bytes read) is end of stream.
ReadLine(buf) ==
    With(buf, LAMBDA b :
    With(IndexOf(b, "\n"), LAMBDA i :
    With(IF i = 0 THEN Len(b) ELSE i, LAMBDA n :
        [line |-> SubSeq(b, 1, n), rest |-> SubSeq(b, n + 1, Len(b))])))

(***************************************************************************)
(* usize: parsing and formatting.                                          *)
(***************************************************************************)

UsizeMaxDigits ==
    <<"1", "8", "4", "4", "6", "7", "4", "4", "0", "7",
      "3", "7", "0", "9", "5", "5", "1", "6", "1", "5">>

IsizeMaxDigits ==
    <<"9", "2", "2", "3", "3", "7", "2", "0", "3", "6",
      "8", "5", "4", "7", "7", "5", "8", "0", "7">>

\* the canonical numeral of a sequence of digits: no leading zeros
StripZeros(ds) ==
    With(ds, LAMBDA t :
        IF \A i \in 1..Len(t) : t[i] = "0" THEN <<"0">>
        ELSE SubSeq(t, CHOOSE i \in 1..Len(t) :
                            /\ t[i] # "0"
                            /\ \A j \in 1..(i - 1) : t[j] = "0",
                    Len(t)))

\* a > b for canonical numerals
NumeralGreater(a, b) ==
    With(a, LAMBDA x :
    With(b, LAMBDA y :
        \/ Len(x) > Len(y)
        \/ /\ Len(x) = Len(y)
           /\ \E i \in 1..Len(x) :
                /\ DigitValue(x[i]) > DigitValue(y[i])
                /\ \A j \in 1..(i - 1) : x[j] = y[j]))

RECURSIVE NatOf(_)
\* the number a numeral stands for
NatOf(ds) ==
    With(ds, LAMBDA t :
        IF t = <<>> THEN 0
        ELSE 10 * NatOf(SubSeq(t, 1, Len(t) - 1)) + DigitValue(t[Len(t)]))

RECURSIVE DigitsOf(_)
\* format!("{}", n) for a usize n
DigitsOf(n) ==
    With(n, LAMBDA k :
        IF k < 10 THEN <<Digits[k + 1]>>
        ELSE DigitsOf(k \div 10) \o <<Digits[(k % 10) + 1]>>)

\* str::parse::<usize>() / usize::from_str_radix(_, 10): an optional "+",
\* then one or more digits, the value at most usize::MAX
ParseUsize(s) ==
    With(s, LAMBDA t :
    With(IF t # <<>> /\ Head(t) = "+" THEN Tail(t) ELSE t, LAMBDA ds :
        IF ds = <<>> \/ \E i \in 1..Len(ds) : ~IsDigit(ds[i])
        THEN [ok |-> FALSE, num |-> <<>>]
        ELSE With(StripZeros(ds), LAMBDA num :
                IF NumeralGreater(num, UsizeMaxDigits)
                THEN [ok |-> FALSE, num |-> <<>>]
                ELSE [ok |-> TRUE, num |-> num])))

(***************************************************************************)
(* Header codec (src/src/header.rs).                                       *)
(***************************************************************************)

ContentLengthName ==
    <<"C", "o", "n", "t", "e", "n", "t", "-", "L", "e", "n", "g", "t", "h">>

\* HeaderField::Len(num)
FieldLen(num) == [tag |-> "Len", num |-> num, name |-> <<>>, value |-> <<>>]

\* HeaderField::Other { name, value }
FieldOther(name, value) ==
    [tag |-> "Other", num |-> <<>>, name |-> name, value |-> value]

\* Result<Option<HeaderField>, Error>: Err(Error::BadMessage)
FieldErr == [kind |-> "err", field |-> FieldLen(<<>>)]

\* Ok(None)
FieldNone == [kind |-> "none", field |-> FieldLen(<<>>)]

\* Ok(Some(f))
FieldSome(f) == [kind |-> "some", field |-> f]

\* specialize as it would be were a Content-Length that does not parse kept
\* as an unknown field
SpecializeKeep(f) ==
    With(f, LAMBDA g :
        IF g.tag = "Other" /\ g.name = ContentLengthName
        THEN With(ParseUsize(g.value), LAMBDA length :
                IF length.ok THEN FieldSome(FieldLen(length.num))
                ELSE FieldSome(g))
        ELSE FieldSome(g))

\* HeaderField::specialize
Specialize(f) ==
    With(f, LAMBDA g :
        IF g.tag = "Other" /\ g.name = ContentLengthName
        THEN With(ParseUsize(g.value), LAMBDA length :
                IF length.ok THEN FieldSome(FieldLen(length.num)) ELSE FieldErr)
        ELSE FieldSome(g))

\* line.split(':').map(str::trim).filter(|part| !part.is_empty())
LineParts(line) ==
    With(SplitOn(line, ":"), LAMBDA raw :
        SelectSeq([i \in 1..Len(raw) |-> Trim(raw[i])],
                  LAMBDA part : part # <<>>))

\* HeaderField::read_from as it would be were a name alone a field with
\* an empty value
HeaderFieldReadFromLenient(line) ==
    With(LineParts(line), LAMBDA parts :
        IF Len(parts) >= 3 THEN FieldErr
        ELSE IF Len(parts) = 0 THEN FieldNone
        ELSE IF Len(parts) = 2 THEN Specialize(FieldOther(parts[1], parts[2]))
        ELSE FieldSome(FieldOther(parts[1], <<>>)))

\* HeaderField::read_from as it would be were a line to end with "\r\n"
HeaderFieldReadFromCrLf(line) ==
    With(LineParts(line), LAMBDA parts :
        IF /\ line # <<>>
           /\ \/ Len(line) < 2
              \/ SubSeq(line, Len(line) - 1, Len(line)) # <<"\r", "\n">>
        THEN FieldErr
        ELSE IF Len(parts) >= 3 THEN FieldErr
        ELSE IF Len(parts) = 0 THEN FieldNone
        ELSE IF Len(parts) = 2 THEN Specialize(FieldOther(parts[1], parts[2]))
        ELSE FieldErr)

\* HeaderField::read_from, on the line read_line returned
HeaderFieldReadFrom(line) ==
    With(LineParts(line), LAMBDA parts :
        IF Len(parts) >= 3 THEN FieldErr
        ELSE IF Len(parts) = 0 THEN FieldNone
        ELSE IF Len(parts) = 2 THEN Specialize(FieldOther(parts[1], parts[2]))
        ELSE FieldErr)

\* Option<Header>: None
NoHeader == [some |-> FALSE, len |-> <<>>, fields |-> <<>>]

\* from_raw_fields as it would be were a missing length taken as 0
FromRawFieldsDefault(fields) ==
    With(fields, LAMBDA fs :
        IF \E i \in 1..Len(fs) : fs[i].tag = "Len"
        THEN With(CHOOSE k \in 1..Len(fs) :
                    /\ fs[k].tag = "Len"
                    /\ \A j \in 1..(k - 1) : fs[j].tag # "Len",
                  LAMBDA i : [some |-> TRUE, len |-> fs[i].num, fields |-> fs])
        ELSE [some |-> TRUE, len |-> <<"0">>, fields |-> fs])

\* from_raw_fields as it would be were the fields it does not know dropped
FromRawFieldsKnownOnly(fields) ==
    With(fields, LAMBDA fs :
        IF \E i \in 1..Len(fs) : fs[i].tag = "Len"
        THEN With(CHOOSE k \in 1..Len(fs) :
                    /\ fs[k].tag = "Len"
                    /\ \A j \in 1..(k - 1) : fs[j].tag # "Len",
                  LAMBDA i :
                    [some |-> TRUE, len |-> fs[i].num,
                     fields |-> SelectSeq(fs, LAMBDA f : f.tag = "Len")])
        ELSE NoHeader)

\* from_raw_fields as it would be were the last Len field taken
FromRawFieldsLast(fields) ==
    With(fields, LAMBDA fs :
        IF \E i \in 1..Len(fs) : fs[i].tag = "Len"
        THEN With(CHOOSE k \in 1..Len(fs) :
                    /\ fs[k].tag = "Len"
                    /\ \A j \in (k + 1)..Len(fs) : fs[j].tag # "Len",
                  LAMBDA i : [some |-> TRUE, len |-> fs[i].num, fields |-> fs])
        ELSE [some |-> FALSE, len |-> <<>>, fields |-> <<>>])

\* Header::from_raw_fields: the length is the first Len field's
FromRawFields(fields) ==
    With(fields, LAMBDA fs :
        IF \E i \in 1..Len(fs) : fs[i].tag = "Len"
        THEN With(CHOOSE k \in 1..Len(fs) :
                    /\ fs[k].tag = "Len"
                    /\ \A j \in 1..(k - 1) : fs[j].tag # "Len",
                  LAMBDA i : [some |-> TRUE, len |-> fs[i].num, fields |-> fs])
        ELSE NoHeader)

RECURSIVE HeaderReadLoop(_, _)
\* the loop of Header::read_from over the bytes `buf`, `fields` read so far
HeaderReadLoop(buf, fields) ==
    With(ReadLine(buf), LAMBDA rl :
    With(HeaderFieldReadFrom(rl.line), LAMBDA r :
        IF r.kind = "err"
        THEN [ok |-> FALSE, header |-> NoHeader, rest |-> rl.rest]
        ELSE IF r.kind = "none"
        THEN With(FromRawFields(fields), LAMBDA h :
                [ok |-> h.some, header |-> h, rest |-> rl.rest])
        ELSE HeaderReadLoop(rl.rest, Append(fields, r.field))))

\* Header::read_from on a stream that holds `buf` and then ends
HeaderReadFrom(buf) == HeaderReadLoop(buf, <<>>)

(***************************************************************************)
(* Message body (src/src/message.rs).  serde_json is modelled on flat JSON *)
(* objects whose members are strings without ',' '"' or escapes, unsigned  *)
(* numbers and objects of at most one such member; every body of the model *)
(* is such a text or a broken one.                                         *)
(***************************************************************************)

IsQuoted(s) ==
    /\ Len(s) >= 2
    /\ s[1] = "\"" /\ s[Len(s)] = "\""
    /\ \A i \in 2..(Len(s) - 1) : s[i] # "\""

IsNumber(s) ==
    /\ s # <<>>
    /\ \A i \in 1..Len(s) : IsDigit(s[i])
    /\ (Len(s) > 1 => s[1] # "0")

Unquote(s) == SubSeq(s, 2, Len(s) - 1)

\* a member that is no member
NoMember ==
    [ok |-> FALSE, key |-> <<>>, isString |-> FALSE, isObject |-> FALSE,
     val |-> <<>>]

\* a string or a number as the value of the member `key`
JsonScalar(key, val) ==
    IF IsQuoted(val)
    THEN [ok |-> TRUE, key |-> key, isString |-> TRUE, isObject |-> FALSE,
          val |-> Unquote(val)]
    ELSE IF IsNumber(val)
    THEN [ok |-> TRUE, key |-> key, isString |-> FALSE, isObject |-> FALSE,
          val |-> val]
    ELSE NoMember

\* the key and the value text of `"key":value`, split at the first ':'
JsonKeyValue(piece) ==
    With(IndexOf(piece, ":"), LAMBDA i :
        IF i = 0 THEN [ok |-> FALSE, key |-> <<>>, val |-> <<>>]
        ELSE With(Trim(SubSeq(piece, 1, i - 1)), LAMBDA key :
                [ok |-> IsQuoted(key),
                 key |-> IF IsQuoted(key) THEN Unquote(key) ELSE <<>>,
                 val |-> Trim(SubSeq(piece, i + 1, Len(piece)))]))

\* an object of no member or of one scalar member
IsSmallObject(val) ==
    /\ Len(val) >= 2
    /\ val[1] = "{" /\ val[Len(val)] = "}"
    /\ With(Trim(SubSeq(val, 2, Len(val) - 1)), LAMBDA inner :
          \/ inner = <<>>
          \/ With(JsonKeyValue(inner), LAMBDA kv :
                kv.ok /\ JsonScalar(kv.key, kv.val).ok))

\* one `"key":value` member of an object: the value is a string, a number
\* or a small object
JsonMember(piece) ==
    With(JsonKeyValue(piece), LAMBDA kv :
        IF ~kv.ok THEN NoMember
        ELSE IF IsSmallObject(kv.val)
        THEN [ok |-> TRUE, key |-> kv.key, isString |-> FALSE,
              isObject |-> TRUE, val |-> kv.val]
        ELSE JsonScalar(kv.key, kv.val))

\* serde_json::from_slice::<Value>: the members of the object, in order
JsonFromSlice(bytes) ==
    With(Trim(bytes), LAMBDA s :
        IF Len(s) < 2 \/ s[1] # "{" \/ s[Len(s)] # "}"
        THEN [ok |-> FALSE, members |-> <<>>]
        ELSE With(SubSeq(s, 2, Len(s) - 1), LAMBDA inner :
             With(IF Trim(inner) = <<>> THEN <<>> ELSE SplitOn(inner, ","),
                  LAMBDA pieces :
             With([i \in 1..Len(pieces) |-> JsonMember(pieces[i])],
                  LAMBDA members :
                IF \A i \in 1..Len(members) : members[i].ok
                THEN [ok |-> TRUE, members |-> members]
                ELSE [ok |-> FALSE, members |-> <<>>]))))

SeqText == <<"s", "e", "q">>

TypeText == <<"t", "y", "p", "e">>

\* Result<Message, Error>: Ok(Message::Generic(..))
MsgOk(seq, type) == [ok |-> TRUE, seq |-> seq, type |-> type, err |-> "none"]

\* Result<Message, Error>: Err(e)
MsgErr(e) == [ok |-> FALSE, seq |-> <<>>, type |-> <<>>, err |-> e]

\* the members of the object v whose key is k
MembersAt(v, k) == SelectSeq(v.members, LAMBDA m : m.key = k)

\* GenericMessage::parse and Message::from: the text must be JSON and must
\* hold the members of MessageSerde, `seq` (a usize) and `type` (a string),
\* each once
MessageParse(bytes) ==
    With(JsonFromSlice(bytes), LAMBDA v :
        IF ~v.ok THEN MsgErr("Json")
        ELSE With(MembersAt(v, SeqText), LAMBDA seqs :
             With(MembersAt(v, TypeText), LAMBDA types :
                IF Len(seqs) # 1 \/ Len(types) # 1 THEN MsgErr("Json")
                ELSE IF seqs[1].isString \/ seqs[1].isObject
                        \/ ~types[1].isString
                        \/ NumeralGreater(seqs[1].val, UsizeMaxDigits)
                THEN MsgErr("Json")
                ELSE MsgOk(seqs[1].val, types[1].val))))

\* the call does not return: the thread panics
MsgPanic == [ok |-> FALSE, seq |-> <<>>, type |-> <<>>, err |-> "panic"]

\* Message::read_from as it would be were the rest of the input read too
MessageReadFromGreedy(buf) ==
    With(HeaderReadFrom(buf), LAMBDA h :
        IF ~h.ok THEN [res |-> MsgErr("BadMessage"), rest |-> h.rest]
        ELSE IF NumeralGreater(h.header.len, IsizeMaxDigits)
        THEN [res |-> MsgPanic, rest |-> h.rest]
        ELSE IF NumeralGreater(h.header.len, DigitsOf(Len(h.rest)))
        THEN [res |-> MsgErr("Io"), rest |-> <<>>]
        ELSE With(NatOf(h.header.len), LAMBDA n :
                [res |-> MessageParse(SubSeq(h.rest, 1, n)),
                 rest |-> <<>>]))

\* Message::read_from on a stream that holds `buf` and then ends: the result
\* and the bytes left unread
MessageReadFrom(buf) ==
    With(HeaderReadFrom(buf), LAMBDA h :
        IF ~h.ok THEN [res |-> MsgErr("BadMessage"), rest |-> h.rest]
        ELSE IF NumeralGreater(h.header.len, IsizeMaxDigits)
        THEN [res |-> MsgPanic, rest |-> h.rest]
        ELSE IF NumeralGreater(h.header.len, DigitsOf(Len(h.rest)))
        THEN [res |-> MsgErr("Io"), rest |-> <<>>]
        ELSE With(NatOf(h.header.len), LAMBDA n :
                [res |-> MessageParse(SubSeq(h.rest, 1, n)),
                 rest |-> SubSeq(h.rest, n + 1, Len(h.rest))]))

(***************************************************************************)
(* Header construction and serialization (src/src/lib.rs).                 *)
(***************************************************************************)

\* Header::new
HeaderNew(len) == FromRawFields(<<FieldLen(DigitsOf(len))>>)

\* the (name, value) pair `into` writes for a field
FieldText(f) ==
    IF f.tag = "Len"
    THEN [name |-> ContentLengthName, value |-> f.num]
    ELSE [name |-> f.name, value |-> f.value]

RECURSIVE FieldsIntoString(_)
\* the loop of `into`: format!("{}:{}\r\n", name, value) for each field
FieldsIntoString(fs) ==
    With(fs, LAMBDA t :
        IF t = <<>> THEN <<>>
        ELSE With(FieldText(Head(t)), LAMBDA nv :
                nv.name \o <<":">> \o nv.value \o <<"\r", "\n">>
                    \o FieldsIntoString(Tail(t))))

\* impl Into<String> for Header: the fields, then the literal pushed last
HeaderIntoString(h) ==
    FieldsIntoString(h.fields) \o <<"{", "}", ":", "{", "}", "\r", "\n">>

(***************************************************************************)
(* Messages and their classification (src/src/lib.rs).                     *)
(***************************************************************************)

\* Result<Message, Error>: Err(e), or the call does not return ("panic")
LibErr(e) ==
    [ok |-> FALSE, err |-> e, category |-> "none", view |-> "none",
     seq |-> <<>>, type |-> <<>>, raw_value |-> <<>>]

\* Err(Error::InvalidJson(e)), e.classify() the category
LibJsonErr(category) == [LibErr("InvalidJson") EXCEPT !.category = category]

\* Result<Message, Error>: Ok(m), m the variant `view` of Message around a
\* GenericMessage {info: {seq, type}, raw_value}
LibOk(view, seq, type, raw) ==
    [ok |-> TRUE, err |-> "none", category |-> "none", view |-> view,
     seq |-> seq, type |-> type, raw_value |-> raw]

\* one character of a JSON text read in the state st of the parser, depth
\* objects being open: the next state, and whether the character is taken
JsonStep(c, st, depth) ==
    LET to(n, d) == [st |-> n, depth |-> d, eat |-> TRUE]
        bad == [st |-> "Syntax", depth |-> depth, eat |-> TRUE]
        ws == c \in WhiteSpace
    IN  CASE st = "value" ->
                IF ws THEN to(st, depth)
                ELSE IF c = "{" THEN to("first", depth + 1)
                ELSE IF c = "\"" THEN to("string", depth)
                ELSE IF c = "0" THEN to("zero", depth)
                ELSE IF IsDigit(c) THEN to("number", depth)
                ELSE bad
          [] st = "first" ->
                IF ws THEN to(st, depth)
                ELSE IF c = "}" THEN to("after", depth - 1)
                ELSE IF c = "\"" THEN to("name", depth)
                ELSE bad
          [] st = "key" ->
                IF ws THEN to(st, depth)
                ELSE IF c = "\"" THEN to("name", depth)
                ELSE bad
          [] st = "name" ->
                IF c = "\"" THEN to("colon", depth)
                ELSE IF ws /\ c # " " THEN bad
                ELSE to(st, depth)
          [] st = "colon" ->
                IF ws THEN to(st, depth)
                ELSE IF c = ":" THEN to("value", depth)
                ELSE bad
          [] st = "string" ->
                IF c = "\"" THEN to("after", depth)
                ELSE IF ws /\ c # " " THEN bad
                ELSE to(st, depth)
          [] st = "number" ->
                IF IsDigit(c) THEN to(st, depth)
                ELSE [st |-> "after", depth |-> depth, eat |-> FALSE]
          [] st = "zero" ->
                [st |-> "after", depth |-> depth, eat |-> FALSE]
          [] OTHER ->
                IF ws THEN to("after", depth)
                ELSE IF depth > 0 /\ c = "," THEN to("key", depth)
                ELSE IF depth > 0 /\ c = "}" THEN to("after", depth - 1)
                ELSE bad

\* the parser in the state q after the character c
JsonFeed(c, q) ==
    IF q.st = "Syntax" THEN q
    ELSE With(JsonStep(c, q.st, q.depth), LAMBDA n :
            IF n.eat THEN [st |-> n.st, depth |-> n.depth]
            ELSE With(JsonStep(c, n.st, n.depth), LAMBDA m :
                    [st |-> m.st, depth |-> m.depth]))

RECURSIVE JsonScanRange(_, _, _, _)
\* the parser in the state q after the characters lo..hi of the text s
JsonScanRange(s, lo, hi, q) ==
    With(<<lo, hi, q>>, LAMBDA a :
        IF a[1] > a[2] THEN a[3]
        ELSE IF a[1] = a[2] THEN JsonFeed(s[a[1]], a[3])
        ELSE With((a[1] + a[2]) \div 2, LAMBDA mid :
                JsonScanRange(s, mid + 1, a[2],
                              JsonScanRange(s, a[1], mid, a[3]))))

\* serde_json on a text: "ok" for a JSON text, else the category of the
\* error: "Syntax", or "Eof" when the text ends inside a value
JsonScan(bytes) ==
    With(bytes, LAMBDA s :
    With(JsonScanRange(s, 1, Len(s), [st |-> "value", depth |-> 0]),
         LAMBDA q :
            IF q.st = "Syntax" THEN "Syntax"
            ELSE IF q.depth = 0 /\ q.st \in {"after", "number", "zero"}
            THEN "ok"
            ELSE "Eof"))

RequestText == <<"r", "e", "q", "u", "e", "s", "t">>

ResponseText == <<"r", "e", "s", "p", "o", "n", "s", "e">>

\* the two from_slice as they would be were every failure one kind
GenericFromSliceOneKind(bytes) ==
    With(JsonFromSlice(bytes), LAMBDA v :
    With(JsonScan(bytes), LAMBDA scan :
        IF scan # "ok" THEN LibJsonErr("Syntax")
        ELSE With(MessageParse(bytes), LAMBDA info :
                IF ~v.ok \/ ~info.ok THEN LibJsonErr("Syntax")
                ELSE LibOk("Generic", info.seq, info.type, v.members))))

\* the two serde_json::from_slice of GenericMessage::from_input: the Value,
\* then GenericMessageSerde, which has the members of MessageSerde
GenericFromSlice(bytes) ==
    With(JsonFromSlice(bytes), LAMBDA v :
    With(JsonScan(bytes), LAMBDA scan :
        IF scan # "ok" THEN LibJsonErr(scan)
        ELSE With(MessageParse(bytes), LAMBDA info :
                IF ~v.ok \/ ~info.ok THEN LibJsonErr("Data")
                ELSE LibOk("Generic", info.seq, info.type, v.members))))

\* from_input as it would be were raw_value left empty
GenericFromInputNoRaw(buf) ==
    With(HeaderReadFrom(buf), LAMBDA h :
        IF ~h.ok THEN [res |-> LibErr("Invalid"), rest |-> h.rest]
        ELSE IF NumeralGreater(h.header.len, IsizeMaxDigits)
        THEN [res |-> LibErr("panic"), rest |-> h.rest]
        ELSE IF NumeralGreater(h.header.len, DigitsOf(Len(h.rest)))
        THEN [res |-> LibErr("Io"), rest |-> <<>>]
        ELSE With(NatOf(h.header.len), LAMBDA n :
             With(GenericFromSlice(SubSeq(h.rest, 1, n)), LAMBDA g :
                [res |-> [g EXCEPT !.raw_value = <<>>],
                 rest |-> SubSeq(h.rest, n + 1, Len(h.rest))])))

\* GenericMessage::from_input on a stream that holds `buf` and then ends:
\* the result and the bytes left unread
GenericFromInput(buf) ==
    With(HeaderReadFrom(buf), LAMBDA h :
        IF ~h.ok THEN [res |-> LibErr("Invalid"), rest |-> h.rest]
        ELSE IF NumeralGreater(h.header.len, IsizeMaxDigits)
        THEN [res |-> LibErr("panic"), rest |-> h.rest]
        ELSE IF NumeralGreater(h.header.len, DigitsOf(Len(h.rest)))
        THEN [res |-> LibErr("Io"), rest |-> <<>>]
        ELSE With(NatOf(h.header.len), LAMBDA n :
                [res |-> GenericFromSlice(SubSeq(h.rest, 1, n)),
                 rest |-> SubSeq(h.rest, n + 1, Len(h.rest))]))

\* into_specialize as it would be were an unknown type an error
IntoSpecializeStrict(g) ==
    IF ~g.ok THEN g
    ELSE IF g.type = RequestText \/ g.type = ResponseText
    THEN LibErr("panic")
    ELSE LibErr("Invalid")

\* GenericMessage::into_specialize (`?` has returned the Err before it):
\* todo!() panics
IntoSpecialize(g) ==
    IF ~g.ok THEN g
    ELSE IF g.type = RequestText \/ g.type = ResponseText
    THEN LibErr("panic")
    ELSE [g EXCEPT !.view = "Generic"]

\* Message::read_from of src/src/lib.rs
LibMessageReadFrom(buf) ==
    With(GenericFromInput(buf), LAMBDA g :
        [res |-> IntoSpecialize(g.res), rest |-> g.rest])

(***************************************************************************)
(* Requests of src/src/lib.rs: Request::try_from on a serde_json::Value,   *)
(* which is here the sequence of the members of an object.                 *)
(***************************************************************************)

\* Err(Error::InvalidJson(e)) of a request, e.classify() the category
ReqErr(e, category) ==
    [ok |-> FALSE, err |-> e, category |-> category, view |-> "none",
     command |-> <<>>, arguments |-> NoMember]

\* Ok(Request::Initialize | Disconnect | Generic) with what command() and
\* arguments() return; arguments is NoMember for None
ReqOk(view, command, arguments) ==
    [ok |-> TRUE, err |-> "none", category |-> "none", view |-> view,
     command |-> command, arguments |-> arguments]

CommandText ==
    <<"c", "o", "m", "m", "a", "n", "d">>

ArgumentsText ==
    <<"a", "r", "g", "u", "m", "e", "n", "t", "s">>

InitializeText ==
    <<"i", "n", "i", "t", "i", "a", "l", "i", "z", "e">>

DisconnectText ==
    <<"d", "i", "s", "c", "o", "n", "n", "e", "c", "t">>

\* the names InitializeRequestArguments reads adapter_id from
AdapterIdNames ==
    {<<"a", "d", "a", "p", "t", "e", "r", "_", "i", "d">>,
     <<"a", "d", "a", "p", "t", "e", "r", "I", "D">>}

\* the members of DisconnectArguments, each an Option<bool>
DisconnectFlagNames ==
    {<<"r", "e", "s", "t", "a", "r", "t">>,
     <<"t", "e", "r", "m", "i", "n", "a", "t", "e", "D", "e", "b", "u", "g", "g", "e", "e">>,
     <<"s", "u", "s", "p", "e", "n", "d", "D", "e", "b", "u", "g", "g", "e", "e">>}

\* the member `key` of a Value, NoMember when it has none; a Value keeps
\* the last of the members written with one key
ValueGet(members, key) ==
    With(SelectSeq(members, LAMBDA m : m.key = key), LAMBDA at :
        IF at = <<>> THEN NoMember ELSE at[Len(at)])

\* the members of the object a member holds
ObjectMembers(m) == JsonFromSlice(m.val).members

\* GenericRequest::new: from_value::<GenericRequestSerde>, command a String
\* and arguments an Option<Value>
GenericRequestNew(value) ==
    With(ValueGet(value, CommandText), LAMBDA command :
        IF ~command.ok \/ ~command.isString THEN ReqErr("InvalidJson", "Data")
        ELSE ReqOk("Generic", command.val, ValueGet(value, ArgumentsText)))

\* InitializeRequest::try_from as it would be were adapter_id an Option
InitializeTryFromOptional(value) ==
    With(ValueGet(value, ArgumentsText), LAMBDA arguments :
        IF ~arguments.ok \/ ~arguments.isObject
        THEN ReqErr("InvalidJson", "Data")
        ELSE ReqOk("Initialize", InitializeText, arguments))

\* InitializeRequest::try_from: from_value::<InitializeRequestSerde>, whose
\* arguments are an InitializeRequestArguments: an object with the String
\* adapter_id
InitializeTryFrom(value) ==
    With(ValueGet(value, ArgumentsText), LAMBDA arguments :
        IF ~arguments.ok \/ ~arguments.isObject
        THEN ReqErr("InvalidJson", "Data")
        ELSE IF \E i \in 1..Len(ObjectMembers(arguments)) :
                    /\ ObjectMembers(arguments)[i].key \in AdapterIdNames
                    /\ ObjectMembers(arguments)[i].isString
        THEN ReqOk("Initialize", InitializeText, arguments)
        ELSE ReqErr("InvalidJson", "Data"))

\* DisconnectRequest::try_from: from_value::<DisconnectRequestSerde>, whose
\* arguments are an Option<DisconnectArguments>
DisconnectTryFrom(value) ==
    With(ValueGet(value, ArgumentsText), LAMBDA arguments :
        IF ~arguments.ok THEN ReqOk("Disconnect", DisconnectText, arguments)
        ELSE IF ~arguments.isObject THEN ReqErr("InvalidJson", "Data")
        ELSE IF \E i \in 1..Len(ObjectMembers(arguments)) :
                    ObjectMembers(arguments)[i].key \in DisconnectFlagNames
        THEN ReqErr("InvalidJson", "Data")
        ELSE ReqOk("Disconnect", DisconnectText, arguments))

\* into_specialized as it would be were a command it does not know an error
IntoSpecializedKnownOnly(generic, value) ==
    IF generic.command = InitializeText THEN InitializeTryFrom(value)
    ELSE IF generic.command = DisconnectText THEN DisconnectTryFrom(value)
    ELSE ReqErr("InvalidJson", "Data")

\* GenericRequest::into_specialized; value is self.value
IntoSpecialized(generic, value) ==
    IF generic.command = InitializeText THEN InitializeTryFrom(value)
    ELSE IF generic.command = DisconnectText THEN DisconnectTryFrom(value)
    ELSE generic

\* impl TryFrom<serde_json::Value> for Request
RequestTryFrom(value) ==
    With(GenericRequestNew(value), LAMBDA generic :
        IF ~generic.ok THEN generic ELSE IntoSpecialized(generic, value))

(***************************************************************************)
(* Streams the client may send.                                            *)
(***************************************************************************)

CRLF == <<"\r", "\n">>

\* one field line of the wire format, `name:value\r\n`
WireLine(name, value) == name \o <<":">> \o value \o CRLF

\* a frame of the wire format: Content-Length line, blank line, body
WireFrame(body) ==
    WireLine(ContentLengthName, DigitsOf(Len(body))) \o CRLF \o body

BodyFake1 ==
    <<"{", "\"", "s", "e", "q", "\"", ":", "1", ",", "\"", "t", "y", "p",
      "e", "\"", ":", "\"", "f", "a", "k", "e", "\"", "}">>

BodyFake2 ==
    <<"{", "\"", "s", "e", "q", "\"", ":", "2", ",", "\"", "t", "y", "p",
      "e", "\"", ":", "\"", "f", "a", "k", "e", "\"", "}">>

BodyNoType == <<"{", "\"", "s", "e", "q", "\"", ":", "1", "}">>

BodyBadJson == <<"{", "\"", "s", "e", "q", "\"", ":", "1">>

\* two consecutive valid frames
TwoFrames == WireFrame(BodyFake1) \o WireFrame(BodyFake2)

\* a valid frame, then a frame whose Content-Length is corrupt
CorruptSecond ==
    WireFrame(BodyFake1)
        \o WireLine(ContentLengthName, <<"2", "x">>) \o CRLF \o BodyFake2

\* a line that is no header field, then a valid frame
JunkThenFrame == <<"x">> \o CRLF \o WireFrame(BodyFake2)

\* a header that announces more bytes than the stream holds
ShortBody == WireLine(ContentLengthName, <<"9">>) \o CRLF \o <<"{", "}">>

\* bodies that are no JSON, or JSON without the envelope
BadBodies == WireFrame(BodyBadJson) \o WireFrame(BodyNoType)

\* a Content-Length above isize::MAX
HugeLength == WireFrame(BodyFake1) \o WireLine(ContentLengthName, UsizeMaxDigits) \o CRLF

Streams ==
    {<<>>, TwoFrames, CorruptSecond, JunkThenFrame, ShortBody, BadBodies,
     HugeLength}

(***************************************************************************)
(* Listener and Adapter (src/src/adapter.rs).                              *)
(***************************************************************************)

\* the most results the Listener emits in a recorded run
MaxEmit == 4

\* the most results the channel holds when no history is recorded
MaxQueue == 2

VARIABLES
    stream,     \* the bytes the client sends in this session
    wire,       \* the bytes of `stream` that have not arrived yet
    input,      \* Listener.input: the bytes that arrived and are not read yet
    eof,        \* the client closed the stream
    pc,         \* where the production thread is
    fields,     \* the fields Header::read_from has collected
    header,     \* the header of the frame being read
    msg,        \* the result next_msg returned
    queue,      \* the channel between Listener.sender and Adapter.receiver
    alive,      \* the Adapter (the receiving end) exists
    finished,   \* the consumer got None from Adapter::next
    recording,  \* the histories below are kept
    framed,     \* history: the results next_msg returned
    emitted,    \* history: the results the Listener sent
    pulled,     \* history: what Adapter::next returned
    cpc,        \* codec run: the step it is at
    chdr,       \* codec run: the fields of the header it starts from
    cbody,      \* codec run: the body it starts from
    text,       \* codec run: the bytes written
    parsed,     \* codec run: what the header parse returned
    mres,       \* codec run: what Message::read_from returned
    fres,       \* codec run: what HeaderField::read_from returned
    lres,       \* codec run: what Message::read_from of lib.rs returned
    rres        \* codec run: what Request::try_from returned

\* the Listener, the Adapter and their stream
lvars ==
    <<stream, wire, input, eof, pc, fields, header, msg, queue, alive,
      finished, recording, framed, emitted, pulled>>

\* a run of the codec on one header or one frame
cvars == <<cpc, chdr, cbody, text, parsed, mres, fres, lres, rres>>

vars == <<lvars, cvars>>

NoParse == [ok |-> FALSE, header |-> NoHeader, rest |-> <<>>]

NoRead == [res |-> MsgErr("none"), rest |-> <<>>]

NoClass == [res |-> LibErr("none"), rest |-> <<>>]

NoRequest == ReqErr("none", "none")

\* no body
NoBody == [seq |-> <<>>, type |-> <<>>, style |-> "none"]

\* no codec run
CodecIdle ==
    /\ cpc = "idle"
    /\ chdr = <<>>
    /\ cbody = NoBody
    /\ text = <<>>
    /\ parsed = NoParse
    /\ mres = NoRead
    /\ fres = FieldNone
    /\ lres = NoClass
    /\ rres = NoRequest

\* Option<Result<Message, Error>>
PullSome(m) == [some |-> TRUE, res |-> m]
PullNone == [some |-> FALSE, res |-> MsgErr("none")]

Record(hist, item) == IF recording THEN Append(hist, item) ELSE hist

\* the production thread ended: only a panic ends `loop`
Stopped == {"panicked"}

InitWith(rec) ==
    /\ stream \in Streams
    /\ wire = stream
    /\ input = <<>>
    /\ eof = FALSE
    /\ pc = "header"
    /\ fields = <<>>
    /\ header = NoHeader
    /\ msg = MsgErr("none")
    /\ queue = <<>>
    /\ alive = TRUE
    /\ finished = FALSE
    /\ recording = rec
    /\ framed = <<>>
    /\ emitted = <<>>
    /\ pulled = <<>>
    /\ CodecIdle

\* Adapter::single_session_mode: the channel is empty, the thread starts
Init == InitWith(TRUE)

\* the client's bytes arrive one at a time
Deliver ==
    /\ wire # <<>>
    /\ input' = Append(input, Head(wire))
    /\ wire' = Tail(wire)
    /\ UNCHANGED <<stream, eof, pc, fields, header, msg, queue, alive,
                   finished, recording, framed, emitted, pulled>>
    /\ UNCHANGED cvars

\* the client closes the stream
Close ==
    /\ wire = <<>>
    /\ ~eof
    /\ eof' = TRUE
    /\ UNCHANGED <<stream, wire, input, pc, fields, header, msg, queue, alive,
                   finished, recording, framed, emitted, pulled>>
    /\ UNCHANGED cvars

\* next_msg returned r: `let msg = self.next_msg();`
Returned(r) ==
    /\ msg' = r
    /\ pc' = "send"
    /\ framed' = Record(framed, r)

\* one turn of the loop of Header::read_from, called by next_msg: read_line
\* returns when a whole line arrived or the stream ended
ReadField ==
    /\ pc = "header"
    /\ IndexOf(input, "\n") # 0 \/ eof
    /\ \E rl \in {ReadLine(input)} :
       \E r \in {HeaderFieldReadFrom(rl.line)} :
       \E h \in {FromRawFields(fields)} :
           /\ input' = rl.rest
           /\ IF r.kind = "some"
              THEN /\ fields' = Append(fields, r.field)
                   /\ UNCHANGED <<pc, header, msg, framed>>
              ELSE IF r.kind = "none" /\ h.some
              THEN /\ header' = h
                   /\ pc' = "body"
                   /\ UNCHANGED <<fields, msg, framed>>
              ELSE /\ Returned(MsgErr("BadMessage"))
                   /\ UNCHANGED <<fields, header>>
    /\ UNCHANGED <<stream, wire, eof, queue, alive, finished, recording,
                   emitted, pulled>>
    /\ UNCHANGED cvars

\* `vec![0; header.len]` with more than isize::MAX bytes: capacity overflow,
\* the thread panics and the Listener (with its sender) is dropped
AllocPanic ==
    /\ pc = "body"
    /\ NumeralGreater(header.len, IsizeMaxDigits)
    /\ pc' = "panicked"
    /\ UNCHANGED <<stream, wire, input, eof, fields, header, msg, queue,
                   alive, finished, recording, framed, emitted, pulled>>
    /\ UNCHANGED cvars

\* the rest of next_msg as it would be were the body decoded from the
\* buffer and left there
ReadBodyPeek ==
    /\ pc = "body"
    /\ ~NumeralGreater(header.len, IsizeMaxDigits)
    /\ \E enough \in {~NumeralGreater(header.len, DigitsOf(Len(input)))} :
           /\ enough \/ eof
           /\ IF enough
              THEN \E n \in {NatOf(header.len)} :
                   \E r \in {MessageParse(SubSeq(input, 1, n))} :
                       /\ input' = input
                       /\ Returned(r)
              ELSE /\ input' = <<>>
                   /\ Returned(MsgErr("Io"))
    /\ UNCHANGED <<stream, wire, eof, fields, header, queue, alive, finished,
                   recording, emitted, pulled>>
    /\ UNCHANGED cvars

\* the rest of next_msg: read_exact returns when header.len bytes arrived
\* or the stream ended, then the body is decoded
ReadBody ==
    /\ pc = "body"
    /\ ~NumeralGreater(header.len, IsizeMaxDigits)
    /\ \E enough \in {~NumeralGreater(header.len, DigitsOf(Len(input)))} :
           /\ enough \/ eof
           /\ IF enough
              THEN \E n \in {NatOf(header.len)} :
                   \E r \in {MessageParse(SubSeq(input, 1, n))} :
                       /\ input' = SubSeq(input, n + 1, Len(input))
                       /\ Returned(r)
              ELSE /\ input' = <<>>
                   /\ Returned(MsgErr("Io"))
    /\ UNCHANGED <<stream, wire, eof, fields, header, queue, alive, finished,
                   recording, emitted, pulled>>
    /\ UNCHANGED cvars

\* the send as it would be were its error dropped: `let _ = ..send(msg);`
SendIgnoreError ==
    /\ pc = "send"
    /\ IF recording THEN Len(emitted) < MaxEmit ELSE Len(queue) < MaxQueue
    /\ IF alive
       THEN /\ queue' = Append(queue, msg)
            /\ emitted' = Record(emitted, msg)
       ELSE UNCHANGED <<queue, emitted>>
    /\ pc' = "header"
    /\ fields' = <<>>
    /\ UNCHANGED <<stream, wire, input, eof, header, msg, alive, finished,
                   recording, framed, pulled>>
    /\ UNCHANGED cvars

\* the send as it would be on a channel of one slot that keeps the latest
SendOverwrite ==
    /\ pc = "send"
    /\ IF recording THEN Len(emitted) < MaxEmit ELSE Len(queue) < MaxQueue
    /\ IF alive
       THEN /\ queue' = <<msg>>
            /\ emitted' = Record(emitted, msg)
            /\ pc' = "header"
            /\ fields' = <<>>
       ELSE /\ pc' = "panicked"
            /\ UNCHANGED <<queue, emitted, fields>>
    /\ UNCHANGED <<stream, wire, input, eof, header, msg, alive, finished,
                   recording, framed, pulled>>
    /\ UNCHANGED cvars

\* `self.sender.send(msg).unwrap()`, then the next turn of `loop`
Send ==
    /\ pc = "send"
    /\ IF recording THEN Len(emitted) < MaxEmit ELSE Len(queue) < MaxQueue
    /\ IF alive
       THEN /\ queue' = Append(queue, msg)
            /\ emitted' = Record(emitted, msg)
            /\ pc' = "header"
            /\ fields' = <<>>
       ELSE /\ pc' = "panicked"
            /\ UNCHANGED <<queue, emitted, fields>>
    /\ UNCHANGED <<stream, wire, input, eof, header, msg, alive, finished,
                   recording, framed, pulled>>
    /\ UNCHANGED cvars

\* Adapter::next as it would be were the newest result taken first
AdapterNextNewest ==
    /\ alive
    /\ ~finished
    /\ IF queue # <<>>
       THEN /\ pulled' = Record(pulled, PullSome(queue[Len(queue)]))
            /\ queue' = SubSeq(queue, 1, Len(queue) - 1)
            /\ UNCHANGED finished
       ELSE /\ pc \in Stopped
            /\ pulled' = Record(pulled, PullNone)
            /\ finished' = TRUE
            /\ UNCHANGED queue
    /\ UNCHANGED <<stream, wire, input, eof, pc, fields, header, msg, alive,
                   recording, framed, emitted>>
    /\ UNCHANGED cvars

\* Adapter::next as it would be with try_recv: None on an empty queue
AdapterNextTry ==
    /\ alive
    /\ ~finished
    /\ IF queue # <<>>
       THEN /\ pulled' = Record(pulled, PullSome(Head(queue)))
            /\ queue' = Tail(queue)
            /\ UNCHANGED finished
       ELSE /\ pulled' = Record(pulled, PullNone)
            /\ finished' = TRUE
            /\ UNCHANGED queue
    /\ UNCHANGED <<stream, wire, input, eof, pc, fields, header, msg, alive,
                   recording, framed, emitted>>
    /\ UNCHANGED cvars

\* Adapter::next: `self.receiver.recv().ok()`
AdapterNext ==
    /\ alive
    /\ ~finished
    /\ IF queue # <<>>
       THEN /\ pulled' = Record(pulled, PullSome(Head(queue)))
            /\ queue' = Tail(queue)
            /\ UNCHANGED finished
       ELSE /\ pc \in Stopped
            /\ pulled' = Record(pulled, PullNone)
            /\ finished' = TRUE
            /\ UNCHANGED queue
    /\ UNCHANGED <<stream, wire, input, eof, pc, fields, header, msg, alive,
                   recording, framed, emitted>>
    /\ UNCHANGED cvars

\* the consumer drops the Adapter: the receiver goes, with what is queued
Drop ==
    /\ alive
    /\ alive' = FALSE
    /\ queue' = <<>>
    /\ UNCHANGED <<stream, wire, input, eof, pc, fields, header, msg,
                   finished, recording, framed, emitted, pulled>>
    /\ UNCHANGED cvars

Next ==
    \/ Deliver
    \/ Close
    \/ ReadField
    \/ AllocPanic
    \/ ReadBody
    \/ Send
    \/ AdapterNext
    \/ Drop

Spec == Init /\ [][Next]_vars

\* what the scheduler owes the production thread, and a consumer that keeps
\* pulling; no history is kept, so a loop of the program is a cycle of states
ListenerStep == ReadField \/ AllocPanic \/ ReadBody \/ Send

LiveInit == InitWith(FALSE)

LiveSpec ==
    /\ LiveInit
    /\ [][Next]_vars
    /\ WF_vars(ListenerStep)
    /\ WF_vars(AdapterNext)

(***************************************************************************)
(* Runs of the codec on one header or one frame: a header is written and   *)
(* parsed back, a frame is built as the test of src/src/message.rs builds  *)
(* it and read back.                                                       *)
(***************************************************************************)

\* the most fields of a header
MaxFields == 3

OtherFieldName == <<"O", "t", "h", "e", "r", "-", "F", "i", "e", "l", "d">>

NameText == <<"n", "a", "m", "e">>

ValueText == <<"v", "a", "l", "u", "e">>

FakeText == <<"f", "a", "k", "e">>

EventText == <<"e", "v", "e", "n", "t">>

\* the fields a header of the codec runs is made of
FieldChoices ==
    {FieldLen(<<"6">>), FieldLen(<<"3", "6", "0">>),
     FieldOther(OtherFieldName, ValueText), FieldOther(NameText, ValueText)}

\* the field lists with a Content-Length among them
FieldLists ==
    {fs \in UNION {[1..n -> FieldChoices] : n \in 1..MaxFields} :
        \E i \in 1..Len(fs) : fs[i].tag = "Len"}

\* a text with "\n" for every "\r\n"
BareLf(t) == SelectSeq(t, LAMBDA c : c # "\r")

\* the header block of the wire format for the fields fs: a `name:value`
\* line for each, then the blank line
WireBlock(fs) == FieldsIntoString(fs) \o CRLF

Spaces(n) == [i \in 1..n |-> " "]

\* the text of a body {seq, type}: on one line, or laid out over lines as
\* generate_raw_msg_body of the tests lays it out
BodyText(b) ==
    IF b.style = "compact"
    THEN <<"{", "\"", "s", "e", "q", "\"", ":">> \o b.seq
            \o <<",", "\"", "t", "y", "p", "e", "\"", ":", "\"">> \o b.type
            \o <<"\"", "}">>
    ELSE <<"{", "\n">> \o Spaces(12) \o <<"\"", "s", "e", "q", "\"", ":", " ">>
            \o b.seq \o <<",", "\n">> \o Spaces(12)
            \o <<"\"", "t", "y", "p", "e", "\"", ":", " ", "\"">> \o b.type
            \o <<"\"", "\n">> \o Spaces(8) \o <<"}">>

\* the bodies of the codec runs: valid envelopes
Bodies ==
    [seq : {<<"1">>, <<"1", "0">>}, type : {FakeText, EventText},
     style : {"compact", "lines"}]

\* the body with the other seq, the other type and the other layout
OtherBody(b) ==
    [seq |-> IF b.seq = <<"1">> THEN <<"1", "0">> ELSE <<"1">>,
     type |-> IF b.type = FakeText THEN EventText ELSE FakeText,
     style |-> IF b.style = "compact" THEN "lines" ELSE "compact"]

\* lines that are, or are not, header fields
RawLines ==
    {<<>>,
     <<":">>,
     <<" ">>,
     <<":", ":">>,
     NameText \o <<":">> \o ValueText,
     NameText \o <<":">> \o ValueText \o <<":">>,
     NameText \o <<":", ":">> \o ValueText,
     <<":">> \o NameText \o <<":">> \o ValueText,
     NameText \o <<":">> \o ValueText \o <<":">> \o ValueText,
     NameText \o <<":">>,
     NameText \o <<":", " ">>,
     NameText,
     ContentLengthName \o <<":">>,
     ContentLengthName \o <<":", "6">>,
     ContentLengthName \o <<":", "a", "b", "c">>,
     ContentLengthName \o <<":", "-", "1">>,
     ContentLengthName \o <<":", "2", "x">>,
     ContentLengthName \o <<":", "1", ".", "5">>,
     ContentLengthName \o <<":">> \o UsizeMaxDigits \o <<"0">>}

\* frames whose header announces more bytes than follow
ShortFrames ==
    {WireLine(ContentLengthName, p[1]) \o CRLF \o p[2] :
        p \in {q \in {<<"9">>, <<"2", "4">>, UsizeMaxDigits}
                        \X {<<>>, <<"{", "}">>, BodyFake1} :
                NumeralGreater(q[1], DigitsOf(Len(q[2])))}}

\* an initialize request whose arguments hold the one member that
\* InitializeRequestArguments requires
InitializeBody ==
    <<"{", "\"", "s", "e", "q", "\"", ":", "1", ",", "\"", "t", "y", "p",
      "e", "\"", ":", "\"", "r", "e", "q", "u", "e", "s", "t", "\"", ",",
      "\"", "c", "o", "m", "m", "a", "n", "d", "\"", ":", "\"", "i", "n",
      "i", "t", "i", "a", "l", "i", "z", "e", "\"", ",", "\"", "a", "r",
      "g", "u", "m", "e", "n", "t", "s", "\"", ":", "{", "\"", "a", "d",
      "a", "p", "t", "e", "r", "I", "D", "\"", ":", "\"", "x", "\"", "}",
      "}">>

InitializeFrame == WireFrame(InitializeBody)

\* a text as a JSON string
Quote(t) == <<"\"">> \o t \o <<"\"">>

LaunchText ==
    <<"l", "a", "u", "n", "c", "h">>

\* the command member of a request: one of the two commands the crate
\* knows, one it does not know, a number, or <<>> for no member
RequestCommands ==
    {Quote(InitializeText), Quote(DisconnectText), Quote(LaunchText),
     <<"7">>, <<>>}

ArgsEmpty ==
    <<"{", "}">>

ArgsAdapterId ==
    <<"{", "\"", "a", "d", "a", "p", "t", "e", "r", "I", "D", "\"", ":",
      "\"", "x", "\"", "}">>

ArgsClientId ==
    <<"{", "\"", "c", "l", "i", "e", "n", "t", "I", "D", "\"", ":", "\"",
      "x", "\"", "}">>

ArgsAdapterIdNumber ==
    <<"{", "\"", "a", "d", "a", "p", "t", "e", "r", "I", "D", "\"", ":",
      "1", "}">>

ArgsRestart ==
    <<"{", "\"", "r", "e", "s", "t", "a", "r", "t", "\"", ":", "1", "}">>

\* the arguments member of a request, <<>> for no member
RequestArguments ==
    {<<>>, ArgsEmpty, ArgsAdapterId, ArgsClientId, ArgsAdapterIdNumber,
     ArgsRestart, Quote(<<"x">>)}

\* the body of a request with these command and arguments members
RequestBody(command, arguments) ==
    <<"{">> \o Quote(SeqText) \o <<":", "1", ",">> \o Quote(TypeText)
        \o <<":">> \o Quote(RequestText)
        \o (IF command = <<>> THEN <<>>
            ELSE <<",">> \o Quote(CommandText) \o <<":">> \o command)
        \o (IF arguments = <<>> THEN <<>>
            ELSE <<",">> \o Quote(ArgumentsText) \o <<":">> \o arguments)
        \o <<"}">>

RequestBodies ==
    {RequestBody(c, a) : c \in RequestCommands, a \in RequestArguments}

\* InitializeResponse::new(1, 1, None) as serde_json::to_value(..)
\* .to_string() writes it, the members in the order of their names
InitializeResponseSorted ==
    <<"{", "\"", "b", "o", "d", "y", "\"", ":", "n", "u", "l", "l", ",",
      "\"", "c", "o", "m", "m", "a", "n", "d", "\"", ":", "\"", "i", "n",
      "i", "t", "i", "a", "l", "i", "z", "e", "\"", ",", "\"", "m", "e",
      "s", "s", "a", "g", "e", "\"", ":", "n", "u", "l", "l", ",", "\"",
      "r", "e", "q", "u", "e", "s", "t", "_", "s", "e", "q", "\"", ":", "1",
      ",", "\"", "s", "e", "q", "\"", ":", "1", ",", "\"", "s", "u", "c",
      "c", "e", "s", "s", "\"", ":", "t", "r", "u", "e", ",", "\"", "t",
      "y", "p", "e", "\"", ":", "\"", "r", "e", "s", "p", "o", "n", "s",
      "e", "\"", "}">>

\* the same, the members in the order of the structs (serde_json built with
\* preserve_order)
InitializeResponseInOrder ==
    <<"{", "\"", "s", "e", "q", "\"", ":", "1", ",", "\"", "t", "y", "p",
      "e", "\"", ":", "\"", "r", "e", "s", "p", "o", "n", "s", "e", "\"",
      ",", "\"", "r", "e", "q", "u", "e", "s", "t", "_", "s", "e", "q",
      "\"", ":", "1", ",", "\"", "s", "u", "c", "c", "e", "s", "s", "\"",
      ":", "t", "r", "u", "e", ",", "\"", "c", "o", "m", "m", "a", "n", "d",
      "\"", ":", "\"", "i", "n", "i", "t", "i", "a", "l", "i", "z", "e",
      "\"", ",", "\"", "m", "e", "s", "s", "a", "g", "e", "\"", ":", "n",
      "u", "l", "l", ",", "\"", "b", "o", "d", "y", "\"", ":", "n", "u",
      "l", "l", "}">>

InitializeResponseBodies ==
    {InitializeResponseSorted, InitializeResponseInOrder}

\* what InitializeResponse::send_to writes for the body: the header of
\* Header::new(body.len()) as a String, then the body
SendToText(body) == HeaderIntoString(HeaderNew(Len(body))) \o body

\* bodies that are no JSON text: cut short, without a ':', no value, empty,
\* with a character after the value
NotJsonBodies ==
    {BodyBadJson,
     <<"{", "\"", "s", "e", "q", "\"", " ", "1", "}">>,
     <<"x">>,
     <<>>,
     BodyFake1 \o <<"x">>}

\* bodies that are JSON texts and no envelope: no type, no member, no seq,
\* a seq that is a string
NoEnvelopeBodies ==
    {BodyNoType,
     <<"{", "}">>,
     <<"{", "\"", "t", "y", "p", "e", "\"", ":", "\"", "f", "a", "k", "e",
       "\"", "}">>,
     <<"{", "\"", "s", "e", "q", "\"", ":", "\"", "1", "\"", ",", "\"", "t",
       "y", "p", "e", "\"", ":", "\"", "f", "a", "k", "e", "\"", "}">>}

\* what the client may write: a line with no terminator, a line, a header
\* of one line, a header of a Content-Length and one line, a short frame,
\* an initialize request
RawTexts ==
    RawLines
        \cup {l \o CRLF : l \in RawLines}
        \cup {l \o CRLF \o CRLF : l \in RawLines}
        \cup {WireLine(ContentLengthName, <<"6">>) \o l \o CRLF \o CRLF :
                l \in RawLines}
        \cup ShortFrames
        \cup {InitializeFrame}
        \cup {WireFrame(b) : b \in NotJsonBodies \cup NoEnvelopeBodies}

CodecInit ==
    /\ stream = <<>>
    /\ wire = <<>>
    /\ input = <<>>
    /\ eof = TRUE
    /\ pc = "none"
    /\ fields = <<>>
    /\ header = NoHeader
    /\ msg = MsgErr("none")
    /\ queue = <<>>
    /\ alive = FALSE
    /\ finished = FALSE
    /\ recording = FALSE
    /\ framed = <<>>
    /\ emitted = <<>>
    /\ pulled = <<>>
    /\ cpc = "start"
    /\ \/ chdr \in FieldLists /\ cbody = NoBody
       \/ chdr = <<>> /\ cbody \in Bodies
       \/ chdr = <<>> /\ cbody = NoBody
    /\ text = <<>>
    /\ parsed = NoParse
    /\ mres = NoRead
    /\ fres = FieldNone
    /\ lres = NoClass
    /\ rres = NoRequest

\* `let text: String = header.into();` for the header of the fields chdr
IntoString ==
    /\ cpc = "start"
    /\ chdr # <<>>
    /\ text' = HeaderIntoString(FromRawFields(chdr))
    /\ cpc' = "into"
    /\ UNCHANGED <<chdr, cbody, parsed, mres, fres, lres, rres>>
    /\ UNCHANGED lvars

\* the client writes the header block of the fields chdr
WriteWire ==
    /\ cpc = "start"
    /\ chdr # <<>>
    /\ text' = WireBlock(chdr)
    /\ cpc' = "wire"
    /\ UNCHANGED <<chdr, cbody, parsed, mres, fres, lres, rres>>
    /\ UNCHANGED lvars

\* the client writes one of the texts RawTexts
WriteRaw ==
    /\ cpc = "start"
    /\ chdr = <<>>
    /\ cbody = NoBody
    /\ text' \in RawTexts
    /\ cpc' = "raw"
    /\ UNCHANGED <<chdr, cbody, parsed, mres, fres, lres, rres>>
    /\ UNCHANGED lvars

\* HeaderField::read_from on the text
FieldParse ==
    /\ cpc = "raw"
    /\ fres' = HeaderFieldReadFrom(ReadLine(text).line)
    /\ cpc' = "raw-field"
    /\ UNCHANGED <<chdr, cbody, text, parsed, mres, lres, rres>>
    /\ UNCHANGED lvars

\* Header::read_from (Header::from_input in src/src/lib.rs) on the text
HeaderParse ==
    /\ cpc \in {"into", "wire", "raw"}
    /\ parsed' = HeaderReadFrom(text)
    /\ cpc' = IF cpc = "into" THEN "into-parsed"
              ELSE IF cpc = "wire" THEN "wire-parsed" ELSE "raw-parsed"
    /\ UNCHANGED <<chdr, cbody, text, mres, fres, lres, rres>>
    /\ UNCHANGED lvars

\* the same lines written with a bare "\n" at their ends, and
\* Header::read_from on them
ParseBareLf ==
    /\ cpc \in {"wire", "raw"}
    /\ parsed' = HeaderReadFrom(BareLf(text))
    /\ cpc' = IF cpc = "wire" THEN "wire-lf" ELSE "raw-lf"
    /\ UNCHANGED <<chdr, cbody, text, mres, fres, lres, rres>>
    /\ UNCHANGED lvars

\* Header::from_raw_fields on the fields chdr
FromFields ==
    /\ cpc = "start"
    /\ chdr # <<>>
    /\ \E h \in {FromRawFields(chdr)} :
           parsed' = [ok |-> h.some, header |-> h, rest |-> <<>>]
    /\ cpc' = "built"
    /\ UNCHANGED <<chdr, cbody, text, mres, fres, lres, rres>>
    /\ UNCHANGED lvars

\* Header::new(len) for the byte length of the body cbody
NewHeader ==
    /\ cpc = "start"
    /\ cbody # NoBody
    /\ \E h \in {HeaderNew(Len(BodyText(cbody)))} :
           parsed' = [ok |-> h.some, header |-> h, rest |-> <<>>]
    /\ cpc' = "new"
    /\ UNCHANGED <<chdr, cbody, text, mres, fres, lres, rres>>
    /\ UNCHANGED lvars

\* `Header::new(body.len()).into_string()`, then the body
FrameNew ==
    /\ cpc = "start"
    /\ cbody # NoBody
    /\ text' = HeaderIntoString(HeaderNew(Len(BodyText(cbody))))
                  \o BodyText(cbody)
    /\ cpc' = "frame"
    /\ UNCHANGED <<chdr, cbody, parsed, mres, fres, lres, rres>>
    /\ UNCHANGED lvars

\* the frame of the test message_from_input_valid:
\* format!("Content-Length:{}\r\n\r\n{}", body.as_bytes().len(), body)
FrameWire ==
    /\ cpc = "start"
    /\ cbody # NoBody
    /\ text' = WireFrame(BodyText(cbody))
    /\ cpc' = "wframe"
    /\ UNCHANGED <<chdr, cbody, parsed, mres, fres, lres, rres>>
    /\ UNCHANGED lvars

\* two frames on one stream: the frame of cbody, then the frame of the
\* body that differs from it in all its members
FramePair ==
    /\ cpc = "start"
    /\ cbody # NoBody
    /\ text' = WireFrame(BodyText(cbody))
                  \o WireFrame(BodyText(OtherBody(cbody)))
    /\ cpc' = "pair"
    /\ UNCHANGED <<chdr, cbody, parsed, mres, fres, lres, rres>>
    /\ UNCHANGED lvars

\* Message::read_from of src/src/lib.rs on the text
LibRead ==
    /\ cpc \in {"wframe", "raw", "pair"}
    /\ lres' = LibMessageReadFrom(text)
    /\ cpc' = CASE cpc = "wframe" -> "wframe-lib"
               [] cpc = "raw" -> "raw-lib"
               [] OTHER -> "pair-lib"
    /\ UNCHANGED <<chdr, cbody, text, parsed, mres, fres, rres>>
    /\ UNCHANGED lvars

\* Message::read_from of src/src/lib.rs once more on the same input
LibReadNext ==
    /\ cpc = "pair-lib"
    /\ lres' = LibMessageReadFrom(lres.rest)
    /\ cpc' = "pair-lib-next"
    /\ UNCHANGED <<chdr, cbody, text, parsed, mres, fres, rres>>
    /\ UNCHANGED lvars

\* Message::read_from on the frame
MessageRead ==
    /\ cpc \in {"frame", "raw", "pair"}
    /\ mres' = MessageReadFrom(text)
    /\ cpc' = CASE cpc = "frame" -> "read"
               [] cpc = "raw" -> "raw-read"
               [] OTHER -> "pair-read"
    /\ UNCHANGED <<chdr, cbody, text, parsed, fres, lres, rres>>
    /\ UNCHANGED lvars

\* Message::read_from once more on the same input
MessageReadNext ==
    /\ cpc = "pair-read"
    /\ mres' = MessageReadFrom(mres.rest)
    /\ cpc' = "pair-read-next"
    /\ UNCHANGED <<chdr, cbody, text, parsed, fres, lres, rres>>
    /\ UNCHANGED lvars

\* the caller holds the body of a request as a serde_json::Value
RequestValue ==
    /\ cpc = "start"
    /\ text' \in RequestBodies
    /\ cpc' = "request"
    /\ UNCHANGED <<chdr, cbody, parsed, mres, fres, lres, rres>>
    /\ UNCHANGED lvars

\* Request::try_from on the Value
Classify ==
    /\ cpc = "request"
    /\ rres' = RequestTryFrom(JsonFromSlice(text).members)
    /\ cpc' = "request-done"
    /\ UNCHANGED <<chdr, cbody, text, parsed, mres, fres, lres>>
    /\ UNCHANGED lvars

\* respond_to_init: InitializeResponse::new(1, 1, None).send_to(output)
SendTo ==
    /\ cpc = "start"
    /\ text' \in {SendToText(b) : b \in InitializeResponseBodies}
    /\ cpc' = "sent"
    /\ UNCHANGED <<chdr, cbody, parsed, mres, fres, lres, rres>>
    /\ UNCHANGED lvars

\* the client reads what was sent: GenericMessage::from_input
ReadBack ==
    /\ cpc = "sent"
    /\ lres' = GenericFromInput(text)
    /\ cpc' = "sent-read"
    /\ UNCHANGED <<chdr, cbody, text, parsed, mres, fres, rres>>
    /\ UNCHANGED lvars

CodecNext ==
    \/ IntoString
    \/ WriteWire
    \/ WriteRaw
    \/ FieldParse
    \/ HeaderParse
    \/ ParseBareLf
    \/ FromFields
    \/ NewHeader
    \/ FrameNew
    \/ FrameWire
    \/ FramePair
    \/ LibRead
    \/ LibReadNext
    \/ MessageRead
    \/ MessageReadNext
    \/ RequestValue
    \/ Classify
    \/ SendTo
    \/ ReadBack

CodecSpec == CodecInit /\ [][CodecNext]_vars

\* a session of the Listener, or a run of the codec
FullInit == Init \/ CodecInit

FullNext == Next \/ CodecNext

FullSpec == FullInit /\ [][FullNext]_vars

(***************************************************************************)
(* Properties of the Listener and the Adapter.                             *)
(***************************************************************************)

\* the results among what Adapter::next returned
PulledResults ==
    LET got == SelectSeq(pulled, LAMBDA p : p.some)
    IN  [i \in 1..Len(got) |-> got[i].res]

IsPrefix(a, b) == Len(a) <= Len(b) /\ \A i \in 1..Len(a) : a[i] = b[i]

\* C1: once the Listener has emitted an Err result it has terminated: that
\* result is the last one next_msg ever returned (so nothing was read or
\* emitted after it, and there is at most one error).
C1_NothingAfterFirstError ==
    \A i \in 1..Len(emitted) : ~emitted[i].ok => i = Len(framed)

\* C2: a pull that follows a pulled Err never yields an Ok(Message).
C2_NoOkAfterPulledErr ==
    \A i, j \in 1..Len(pulled) :
        (i < j /\ pulled[i].some /\ ~pulled[i].res.ok)
            => ~(pulled[j].some /\ pulled[j].res.ok)

\* C3: the results pulled so far are, in order, the first results next_msg
\* returned: none reordered, duplicated or skipped.
C3_PulledIsPrefixOfFramed == IsPrefix(PulledResults, framed)

C3_Witness ==
    /\ Len(PulledResults) >= 2
    /\ Len(framed) > Len(PulledResults)
    /\ framed[1] # framed[2]

\* C4: once the stream has ended and all of it is read, the production
\* thread eventually stops.
C4_ProducerStopsAfterEof == (eof /\ input = <<>>) ~> (pc \in Stopped)

\* C5: Adapter::next returns Some(r) only for the r at the head of the
\* queue, returns None only when the queue is empty and the production
\* thread has ended, and cannot return while the queue is empty and the
\* thread runs.
C5_NextSomeBlockNone ==
    /\ [](alive /\ queue = <<>> /\ pc \notin Stopped => ~ENABLED AdapterNext)
    /\ [][pulled' # pulled =>
            LET r == pulled'[Len(pulled')]
            IN  IF r.some
                THEN queue # <<>> /\ r.res = Head(queue) /\ queue' = Tail(queue)
                ELSE queue = <<>> /\ pc \in Stopped]_vars

C5_Witness ==
    /\ finished
    /\ Len(pulled) >= 2
    /\ pulled[1].some
    /\ ~pulled[Len(pulled)].some

\* C6: of two valid frames on a stream that stays open the consumer gets
\* the two Ok results in order and nothing else; a third pull blocks.
C6_TwoFramesThenBlock ==
    (stream = TwoFrames /\ ~eof) =>
        /\ \A i \in 1..Len(pulled) : pulled[i].some
        /\ IsPrefix(PulledResults,
                    <<MsgOk(<<"1">>, <<"f", "a", "k", "e">>),
                      MsgOk(<<"2">>, <<"f", "a", "k", "e">>)>>)
        /\ Len(pulled) = 2 => ~ENABLED AdapterNext

C6_Witness ==
    /\ stream = TwoFrames /\ wire = <<>> /\ ~eof /\ alive
    /\ Len(pulled) = 2
    /\ pc = "header" /\ input = <<>>

\* C7: while the Adapter exists, what the Listener emitted is what was
\* pulled followed by what is queued: nothing is lost, however long the
\* queue.
C7_EmittedIsPulledThenQueued ==
    alive => emitted = PulledResults \o queue

C7_Witness ==
    /\ alive
    /\ Len(queue) >= 2
    /\ Len(PulledResults) >= 1

(***************************************************************************)
(* Properties of the codec.                                                *)
(***************************************************************************)

\* the value of the first Content-Length field of fs
FirstLen(fs) ==
    fs[CHOOSE i \in 1..Len(fs) :
          fs[i].tag = "Len" /\ \A j \in 1..(i - 1) : fs[j].tag # "Len"].num

OneLen(fs) == Cardinality({i \in 1..Len(fs) : fs[i].tag = "Len"}) = 1

\* C8: parsing the text a Header with one Content-Length field serializes
\* to succeeds and gives the same content length and the same fields in the
\* same order.
C8_ParseOfSerializeIsHeader ==
    (cpc = "into-parsed" /\ OneLen(chdr)) =>
        /\ parsed.ok
        /\ parsed.header.len = FirstLen(chdr)
        /\ parsed.header.fields = chdr

\* C9: the text of Header::new(byte length of body) followed by the body
\* of a valid envelope is read by Message::read_from as exactly one message
\* with the body's seq and type.
C9_FrameReadsBack ==
    cpc = "read" =>
        /\ mres.res = MsgOk(cbody.seq, cbody.type)
        /\ mres.rest = <<>>

\* C10: a block of well-formed field lines with a Content-Length line and
\* the blank line parses to a Header whose fields are the fields of the
\* lines in their order and whose length is the Content-Length value; the
\* block `Content-Length:6` alone gives the one field ContentLength(6) and
\* the length 6.
C10_WireBlockParses ==
    cpc = "wire-parsed" =>
        /\ parsed.ok
        /\ parsed.header.fields = chdr
        /\ parsed.header.len = FirstLen(chdr)
        /\ chdr = <<FieldLen(<<"6">>)>> =>
              parsed.header =
                  [some |-> TRUE, len |-> <<"6">>,
                   fields |-> <<FieldLen(<<"6">>)>>]

C10_Witness ==
    /\ cpc = "wire-parsed"
    /\ parsed.ok
    /\ Len(parsed.header.fields) = 2
    /\ parsed.header.fields[1] = FieldLen(<<"3", "6", "0">>)
    /\ parsed.header.fields[2] = FieldOther(OtherFieldName, ValueText)
    /\ parsed.header.len = <<"3", "6", "0">>

(***************************************************************************)
(* Properties of the header parser on the texts the client may write.      *)
(***************************************************************************)

\* the text up to and including its first "\n", all of it when there is none
FirstLineOf(t) ==
    IF \E i \in 1..Len(t) : t[i] = "\n"
    THEN SubSeq(t, 1, CHOOSE i \in 1..Len(t) :
                        t[i] = "\n" /\ \A j \in 1..(i - 1) : t[j] # "\n")
    ELSE t

\* a line without its terminator ("\n" or "\r\n")
Content(l) ==
    LET a == IF l # <<>> /\ l[Len(l)] = "\n" THEN SubSeq(l, 1, Len(l) - 1)
             ELSE l
    IN  IF a # <<>> /\ a[Len(a)] = "\r" THEN SubSeq(a, 1, Len(a) - 1) ELSE a

\* the lines of a text, without their terminators
ContentLines(t) ==
    {Content(SubSeq(t, p[1], p[2])) :
        p \in {q \in (1..Len(t)) \X (1..Len(t)) :
                /\ q[1] <= q[2]
                /\ q[1] = 1 \/ t[q[1] - 1] = "\n"
                /\ q[2] = Len(t) \/ t[q[2]] = "\n"
                /\ \A k \in q[1]..(q[2] - 1) : t[k] # "\n"}}

ColonCount(l) == Cardinality({i \in 1..Len(l) : l[i] = ":"})

HasContentLength(t) ==
    \E i \in 1..Len(t) :
        /\ i + Len(ContentLengthName) - 1 <= Len(t)
        /\ SubSeq(t, i, i + Len(ContentLengthName) - 1) = ContentLengthName

LenCount(fs) == Cardinality({i \in 1..Len(fs) : fs[i].tag = "Len"})

\* C11: a Header that a parse returned holds exactly one ContentLength
\* field; a block with no Content-Length line, or with two or more, does
\* not parse.
C11_ExactlyOneContentLength ==
    /\ parsed.ok => LenCount(parsed.header.fields) = 1
    /\ (cpc = "wire-parsed" /\ LenCount(chdr) # 1) => ~parsed.ok

\* C12: a header that ends without any Content-Length field fails with the
\* malformed-header error: a header of unknown fields only, and an input of
\* zero bytes.
C12_NoContentLengthIsMalformed ==
    /\ (cpc = "raw-parsed" /\ ~HasContentLength(text)) =>
            ~parsed.ok /\ parsed.header = NoHeader
    /\ (cpc = "raw-read" /\ ~HasContentLength(text)) =>
            mres.res = MsgErr("BadMessage")

C12_Witness ==
    /\ cpc = "raw-read"
    /\ text = NameText \o <<":">> \o ValueText \o CRLF \o CRLF
    /\ mres.res = MsgErr("BadMessage")

\* C13: a header line with more than one ':' is rejected with the
\* malformed-header error, wherever the extra ':' stands.
C13_ExtraColonRejected ==
    (cpc = "raw-field" /\ ColonCount(FirstLineOf(text)) > 1) =>
        fres = FieldErr

FieldIsFull(f) ==
    IF f.tag = "Len" THEN f.num # <<>> ELSE f.name # <<>> /\ f.value # <<>>

\* C14: only a line that is empty once its terminator is removed ends the
\* header; a line with any other content yields one field with a name and
\* a value, or the malformed-header error.
C14_OnlyEmptyLineEndsHeader ==
    cpc = "raw-field" =>
        LET c == Content(FirstLineOf(text))
        IN  /\ fres.kind = "none" => c = <<>>
            /\ c # <<>> =>
                  \/ fres = FieldErr
                  \/ fres.kind = "some" /\ FieldIsFull(fres.field)

\* a name, the ':' and at most blanks after it
NameOnly(c) ==
    /\ ColonCount(c) = 1
    /\ \E k \in 1..Len(c) :
          /\ c[k] = ":"
          /\ \E i \in 1..(k - 1) : c[i] \notin WhiteSpace
          /\ \A i \in (k + 1)..Len(c) : c[i] \in WhiteSpace

\* C15: a line with a name and the ':' but no value fails with the
\* malformed-header error and gives no field.
C15_NameOnlyIsMalformed ==
    /\ (cpc = "raw-field" /\ NameOnly(Content(FirstLineOf(text)))) =>
            fres = FieldErr
    /\ (cpc = "raw-parsed" /\ NameOnly(Content(FirstLineOf(text)))) =>
            ~parsed.ok /\ parsed.header = NoHeader

C15_Witness ==
    /\ cpc = "raw-field"
    /\ text = NameText \o <<":">>
    /\ fres = FieldErr

\* a Content-Length line whose value is no unsigned decimal integer
BadLength(c) ==
    /\ Len(c) > Len(ContentLengthName) + 1
    /\ SubSeq(c, 1, Len(ContentLengthName) + 1) = ContentLengthName \o <<":">>
    /\ LET v == SubSeq(c, Len(ContentLengthName) + 2, Len(c))
       IN  \/ \E i \in 1..Len(v) :
                ~IsDigit(v[i]) /\ v[i] \notin WhiteSpace /\ v[i] # "+"
           \/ /\ \A i \in 1..Len(v) : IsDigit(v[i])
              /\ Len(v) > Len(UsizeMaxDigits)

\* C16: a Content-Length whose value does not parse as an unsigned decimal
\* integer fails with the malformed-header error: no field, no Header, and
\* the field is not kept as an unknown field.
C16_BadContentLengthIsMalformed ==
    /\ (cpc = "raw-field" /\ BadLength(Content(FirstLineOf(text)))) =>
            fres = FieldErr
    /\ (cpc = "raw-parsed" /\ \E c \in ContentLines(text) : BadLength(c)) =>
            ~parsed.ok /\ parsed.header = NoHeader
    /\ (cpc = "raw-read" /\ \E c \in ContentLines(text) : BadLength(c)) =>
            mres.res = MsgErr("BadMessage")

C16_Witness ==
    /\ cpc = "raw-parsed"
    /\ text = WireLine(ContentLengthName, <<"6">>)
                \o WireLine(ContentLengthName, <<"-", "1">>) \o CRLF
    /\ ~parsed.ok

\* C17: when the stream ends before the content_length bytes of the body
\* are read after a valid header, the frame read fails with the I/O error
\* kind, not the malformed-header or JSON kinds, and returns no message.
C17_ShortBodyIsIoError ==
    (cpc = "raw-read" /\ text \in ShortFrames) => mres.res = MsgErr("Io")

(***************************************************************************)
(* Properties of the classification of messages.                           *)
(***************************************************************************)

\* C18: a frame of type "request" with command "initialize" and valid
\* arguments is classified by Message::read_from through all three levels:
\* the result is a Request whose Initialize view is populated.
C18_InitializeIsClassified ==
    (cpc = "raw-lib" /\ text = InitializeFrame) =>
        /\ lres.res.ok
        /\ lres.res.view = "Initialize"

EventKindText == <<"e", "v", "e", "n", "t">>

RecognizedKinds == {RequestText, ResponseText, EventKindText}

\* C19: a frame whose body is a valid envelope of a type that is not a
\* recognized kind is classified as a Generic message only, with the seq
\* and the type of the body, and is never an error.
C19_UnknownTypeIsGeneric ==
    (cpc = "wframe-lib" /\ cbody.type \notin RecognizedKinds) =>
        /\ lres.res.ok
        /\ lres.res.view = "Generic"
        /\ lres.res.seq = cbody.seq
        /\ lres.res.type = cbody.type
        /\ lres.rest = <<>>

C19_Witness ==
    /\ cpc = "wframe-lib"
    /\ cbody = [seq |-> <<"1">>, type |-> FakeText, style |-> "lines"]
    /\ lres.res.view = "Generic"

\* the JSON value of the body b: the object {seq: number, type: string}
ValueOf(b) ==
    <<[ok |-> TRUE, key |-> <<"s", "e", "q">>, isString |-> FALSE,
       isObject |-> FALSE, val |-> b.seq],
      [ok |-> TRUE, key |-> <<"t", "y", "p", "e">>, isString |-> TRUE,
       isObject |-> FALSE, val |-> b.type]>>

\* the value of the one member `key` of the object v
MemberOf(v, key) ==
    LET at == {i \in 1..Len(v) : v[i].key = key}
    IN  IF Cardinality(at) = 1 THEN v[CHOOSE i \in at : TRUE].val ELSE <<>>

\* C20: raw_value of a classified message is the JSON value of the body of
\* the frame, and seq() and message_type() are the seq and type members of
\* raw_value.
C20_RawValueIsBody ==
    (cpc \in {"wframe-lib", "raw-lib"} /\ lres.res.ok) =>
        /\ cpc = "wframe-lib" => lres.res.raw_value = ValueOf(cbody)
        /\ lres.res.seq = MemberOf(lres.res.raw_value, <<"s", "e", "q">>)
        /\ lres.res.type = MemberOf(lres.res.raw_value, <<"t", "y", "p", "e">>)

C20_Witness ==
    /\ cpc = "wframe-lib"
    /\ lres.res.ok
    /\ cbody.style = "lines"
    /\ lres.res.seq = <<"1", "0">>
    /\ Len(lres.res.raw_value) = 2

\* C21: a body that is not JSON and a body that is JSON without the
\* envelope members seq and type fail with different kinds of error: the
\* first with a syntax error (Eof when the text is cut short), the second
\* with a data error.
C21_SyntaxAndDataDiffer ==
    cpc = "raw-lib" =>
        /\ text \in {WireFrame(b) : b \in NotJsonBodies} =>
              /\ ~lres.res.ok
              /\ lres.res.err = "InvalidJson"
              /\ lres.res.category \in {"Syntax", "Eof"}
        /\ text \in {WireFrame(b) : b \in NoEnvelopeBodies} =>
              /\ ~lres.res.ok
              /\ lres.res.err = "InvalidJson"
              /\ lres.res.category = "Data"

C21_Witness ==
    /\ cpc = "raw-lib"
    /\ text = WireFrame(BodyNoType)
    /\ lres.res.category = "Data"

\* the arguments of an initialize request that hold no adapterID
ArgsLackingAdapterId == {<<>>, ArgsEmpty, ArgsClientId}

\* C22: Request::try_from on a request whose command is "initialize" and
\* whose arguments hold no adapterID fails with the data error and gives no
\* Request.
C22_InitializeNeedsAdapterId ==
    (/\ cpc = "request-done"
     /\ text \in {RequestBody(Quote(InitializeText), a) :
                    a \in ArgsLackingAdapterId}) =>
        /\ ~rres.ok
        /\ rres.view = "none"
        /\ rres.err = "InvalidJson"
        /\ rres.category = "Data"

C22_Witness ==
    /\ cpc = "request-done"
    /\ text = RequestBody(Quote(InitializeText), ArgsClientId)
    /\ ~rres.ok
    /\ rres.category = "Data"

\* the arguments member as it was written: a string in its quotes
WrittenText(m) == IF m.isString THEN Quote(m.val) ELSE m.val

\* C23: Request::try_from on a request whose command is none of the known
\* ones is never an error: it gives the generic request, command() is the
\* name and arguments() the arguments as written, None when there are none.
C23_UnknownCommandIsGeneric ==
    \A a \in RequestArguments :
        (/\ cpc = "request-done"
         /\ text = RequestBody(Quote(LaunchText), a)) =>
            /\ rres.ok
            /\ rres.view = "Generic"
            /\ rres.command = LaunchText
            /\ rres.arguments.ok = (a # <<>>)
            /\ a # <<>> => WrittenText(rres.arguments) = a

C23_Witness ==
    /\ cpc = "request-done"
    /\ text = RequestBody(Quote(LaunchText), ArgsClientId)
    /\ rres.view = "Generic"
    /\ rres.arguments.val = ArgsClientId

\* C24: a frame read that succeeds takes the header lines, the blank line
\* and content_length bytes, no more and no fewer: of two frames on one
\* stream the first read returns the first and leaves the second whole, the
\* second read returns the second and leaves nothing. So it is for next_msg
\* of the Listener, for Message::read_from of message.rs and for that of
\* lib.rs.
C24_ReadConsumesOneFrame ==
    /\ (stream = TwoFrames /\ pc = "send" /\ Len(framed) = 1) =>
          /\ msg = MsgOk(<<"1">>, FakeText)
          /\ input \o wire = WireFrame(BodyFake2)
    /\ (stream = TwoFrames /\ pc = "send" /\ Len(framed) = 2) =>
          /\ msg = MsgOk(<<"2">>, FakeText)
          /\ input \o wire = <<>>
    /\ cpc = "pair-read" =>
          /\ mres.res = MsgOk(cbody.seq, cbody.type)
          /\ mres.rest = WireFrame(BodyText(OtherBody(cbody)))
    /\ cpc = "pair-read-next" =>
          /\ mres.res = MsgOk(OtherBody(cbody).seq, OtherBody(cbody).type)
          /\ mres.rest = <<>>
    /\ cpc = "pair-lib" =>
          /\ lres.res.ok
          /\ lres.res.seq = cbody.seq /\ lres.res.type = cbody.type
          /\ lres.rest = WireFrame(BodyText(OtherBody(cbody)))
    /\ cpc = "pair-lib-next" =>
          /\ lres.res.ok
          /\ lres.res.seq = OtherBody(cbody).seq
          /\ lres.res.type = OtherBody(cbody).type
          /\ lres.rest = <<>>

C24_Witness ==
    /\ cpc = "pair-read-next"
    /\ cbody.style = "lines"
    /\ mres.res.ok
    /\ mres.res.seq = <<"1">>

\* C25: InitializeResponse::send_to writes one frame, the Content-Length
\* line with the byte length of the body, the blank line and the body, and
\* reading it back gives one frame with that body and leaves nothing.
C25_SendToWritesOneFrame ==
    /\ cpc \in {"sent", "sent-read"} =>
          \E b \in InitializeResponseBodies : text = WireFrame(b)
    /\ cpc = "sent-read" =>
          /\ lres.res.ok
          /\ lres.res.seq = <<"1">>
          /\ lres.res.type = ResponseText
          /\ lres.rest = <<>>

\* C26: Message::read_from of lib.rs returns Ok or Err for every input and
\* never panics, also for a frame whose type is "request" or "response".
C26_ReadFromIsTotal ==
    cpc \in {"wframe-lib", "raw-lib", "pair-lib", "pair-lib-next"} =>
        lres.res.err # "panic"

\* C27: while the Adapter exists Adapter::next never returns None: the
\* production thread does not end on its own, so a pull returns a result
\* or blocks.
C27_NextNeverNoneWhileAlive ==
    alive => /\ pc \notin Stopped
             /\ \A i \in 1..Len(pulled) : pulled[i].some

\* C28: once the Adapter is dropped the production thread stops at its next
\* send: the step it takes from the send ends it, and a thread that has
\* ended reads nothing more (bytes may still arrive, none is taken).
C28_DroppedStopsAtSend ==
    [][/\ (~alive /\ pc = "send" /\ pc' # pc) => pc' \in Stopped
       /\ pc \in Stopped =>
             /\ pc' = pc
             /\ framed' = framed
             /\ fields' = fields
             /\ IsPrefix(input, input')]_vars

C28_Witness ==
    /\ stream = TwoFrames
    /\ ~alive
    /\ pc \in Stopped
    /\ Len(framed) = 1
    /\ Len(input) = Len(WireFrame(BodyFake2))

\* the fields of a header hold a Content-Length
HasLen(fs) == \E i \in 1..Len(fs) : fs[i].tag = "Len"

\* C29: in every Header that from_raw_fields, read_from / from_input or new
\* built, the length is the value of the first Content-Length field of its
\* fields, and the fields are the ones it was built from, in their order.
C29_LenIsFirstContentLength ==
    /\ parsed.ok =>
          /\ HasLen(parsed.header.fields)
          /\ parsed.header.len = FirstLen(parsed.header.fields)
    /\ cpc \in {"built", "wire-parsed"} =>
          /\ parsed.ok
          /\ parsed.header.fields = chdr
    /\ cpc = "new" =>
          /\ parsed.ok
          /\ parsed.header.fields =
                <<FieldLen(DigitsOf(Len(BodyText(cbody))))>>

C29_Witness ==
    /\ cpc = "built"
    /\ Len(chdr) = 3
    /\ chdr[1].tag = "Other" /\ chdr[2].tag = "Len" /\ chdr[3].tag = "Len"
    /\ chdr[2].num # chdr[3].num
    /\ parsed.header.len = chdr[2].num

\* C30: a header block written with a bare "\n" at the end of its lines
\* parses as the block written with "\r\n": the same result, the same
\* Header, and the same lines taken from the input.
C30_BareLfParsesAsCrLf ==
    /\ cpc \in {"wire-lf", "raw-lf"} =>
          /\ parsed.ok = HeaderReadFrom(text).ok
          /\ parsed.header = HeaderReadFrom(text).header
          /\ parsed.rest = BareLf(HeaderReadFrom(text).rest)
    /\ cpc = "wire-lf" =>
          /\ parsed.ok
          /\ parsed.header.fields = chdr
          /\ parsed.header.len = FirstLen(chdr)
          /\ parsed.rest = <<>>

C30_Witness ==
    /\ cpc = "wire-lf"
    /\ Len(chdr) = 3
    /\ parsed.ok
    /\ parsed.header.fields = chdr
    /\ BareLf(text) # text

=============================================================================
